---- MODULE Spec2Model ----
(***************************************************************************)
(* Model of the InvoiceIntel extraction pipeline (src/app.py and its       *)
(* earlier variant src/unnamed/part_000, "app copy.py").                   *)
(*                                                                         *)
(* A text is a sequence of atoms.  An atom is one character (a backtick,   *)
(* a brace, a digit, a blank ...) or an indivisible word that contains no  *)
(* backtick, quote or blank ("json", "null", "date", "F&B", ...).          *)
(* str.replace, str.strip and json.loads are modelled on such sequences.   *)
(***************************************************************************)
EXTENDS Integers, Sequences, FiniteSets, TLC

\* ---------------------------------------------------------------- bounds
MaxFiles == 2
MaxEdits == 1
MaxLen == 4

\* ----------------------------------------------------------------- atoms
\* the backtick character (the lexer of TLA+ rejects it inside a string)
BT == "backtick"
Q == "\""
SP == " "
NL == "\n"
Whitespace == {SP, NL}
Digits == <<"0", "1", "2", "3", "4", "5", "6", "7", "8", "9">>
DigitSet == {Digits[k] : k \in 1..Len(Digits)}
DigitVal(a) == (CHOOSE k \in 1..Len(Digits) : Digits[k] = a) - 1

FenceJson == <<BT, BT, BT, "json">>
FenceBare == <<BT, BT, BT>>

\* ------------------------------------------------- str.replace / str.strip
IsPrefix(p, s) == Len(p) <= Len(s) /\ SubSeq(s, 1, Len(p)) = p

RECURSIVE Replace(_, _)
\* s.replace(pat, ""): leftmost, non-overlapping occurrences are removed
Replace(s, pat) ==
    IF s = <<>> THEN <<>>
    ELSE IF IsPrefix(pat, s) THEN Replace(SubSeq(s, Len(pat) + 1, Len(s)), pat)
    ELSE <<Head(s)>> \o Replace(Tail(s), pat)

RECURSIVE LStrip(_)
LStrip(s) == IF s # <<>> /\ Head(s) \in Whitespace THEN LStrip(Tail(s)) ELSE s

RECURSIVE RStrip(_)
RStrip(s) ==
    IF s # <<>> /\ s[Len(s)] \in Whitespace THEN RStrip(SubSeq(s, 1, Len(s) - 1)) ELSE s

Strip(s) == RStrip(LStrip(s))

\* A plausible slip: the bare fence is removed before the tagged one, which
\* leaves the language tag behind.
CleanTextSwapped(text) == Strip(Replace(Replace(text, FenceBare), FenceJson))

\* response.text.replace(FenceJson, "").replace(FenceBare, "").strip()
CleanText(text) == Strip(Replace(Replace(text, FenceJson), FenceBare))

\* ------------------------------------------------------------- json.loads
JVal(t, n, s, items, members) ==
    [t |-> t, n |-> n, s |-> s, items |-> items, members |-> members]
JNull == JVal("null", 0, <<>>, <<>>, <<>>)
JTrue == JVal("true", 0, <<>>, <<>>, <<>>)
JFalse == JVal("false", 0, <<>>, <<>>, <<>>)
JNum(n) == JVal("num", n, <<>>, <<>>, <<>>)
JStr(s) == JVal("str", 0, s, <<>>, <<>>)
JArr(items) == JVal("arr", 0, <<>>, items, <<>>)
JObj(members) == JVal("obj", 0, <<>>, <<>>, members)

PFail == [ok |-> FALSE, v |-> JNull, rest |-> <<>>]
POk(v, rest) == [ok |-> TRUE, v |-> v, rest |-> rest]

\* dict[k] = v : an existing key keeps its position, a new key goes last
DictSet(members, k, v) ==
    IF \E j \in 1..Len(members) : members[j].k = k
    THEN [j \in 1..Len(members) |->
            IF members[j].k = k THEN [k |-> k, v |-> v] ELSE members[j]]
    ELSE Append(members, [k |-> k, v |-> v])

HasKey(members, k) == \E j \in 1..Len(members) : members[j].k = k
DictGet(members, k) ==
    IF HasKey(members, k)
    THEN members[CHOOSE j \in 1..Len(members) : members[j].k = k].v
    ELSE JNull

RECURSIVE DigitRun(_)
\* length of the maximal run of digits at the head of s
DigitRun(s) == IF s # <<>> /\ Head(s) \in DigitSet THEN 1 + DigitRun(Tail(s)) ELSE 0

RECURSIVE Decimal(_)
Decimal(ds) ==
    IF ds = <<>> THEN 0
    ELSE 10 * Decimal(SubSeq(ds, 1, Len(ds) - 1)) + DigitVal(ds[Len(ds)])

\* index of the closing quote in s (0 when there is none)
ClosingQuote(s) ==
    IF \E j \in 1..Len(s) : s[j] = Q
    THEN CHOOSE j \in 1..Len(s) : s[j] = Q /\ \A h \in 1..(j - 1) : s[h] # Q
    ELSE 0

\* a string literal; s starts right after the opening quote
ParseString(s) ==
    LET c == ClosingQuote(s) IN
    IF c = 0 THEN PFail
    ELSE POk(JStr(SubSeq(s, 1, c - 1)), SubSeq(s, c + 1, Len(s)))

\* an unsigned integer literal; a leading zero is only legal alone
ParseNumber(s) ==
    LET n == DigitRun(s) IN
    IF n > 1 /\ Head(s) = "0" THEN POk(JNum(0), Tail(s))
    ELSE POk(JNum(Decimal(SubSeq(s, 1, n))), SubSeq(s, n + 1, Len(s)))

RECURSIVE ParseValue(_)
RECURSIVE ParseElems(_, _)
RECURSIVE ParsePairs(_, _)

ParseValue(txt) ==
    LET s == LStrip(txt) IN
    IF s = <<>> THEN PFail
    ELSE LET h == Head(s)
             r == Tail(s)
         IN  CASE h = "{" ->
                    (LET r1 == LStrip(r) IN
                     IF r1 # <<>> /\ Head(r1) = "}" THEN POk(JObj(<<>>), Tail(r1))
                     ELSE ParsePairs(r1, <<>>))
               [] h = "[" ->
                    (LET r1 == LStrip(r) IN
                     IF r1 # <<>> /\ Head(r1) = "]" THEN POk(JArr(<<>>), Tail(r1))
                     ELSE ParseElems(r1, <<>>))
               [] h = Q -> ParseString(r)
               [] h \in DigitSet -> ParseNumber(s)
               [] h = "null" -> POk(JNull, r)
               [] h = "true" -> POk(JTrue, r)
               [] h = "false" -> POk(JFalse, r)
               [] OTHER -> PFail

\* elements of an array, after "[" or ","
ParseElems(txt, acc) ==
    LET e == ParseValue(txt) IN
    IF ~e.ok THEN PFail
    ELSE LET s == LStrip(e.rest) IN
         IF s = <<>> THEN PFail
         ELSE IF Head(s) = "," THEN ParseElems(Tail(s), Append(acc, e.v))
         ELSE IF Head(s) = "]" THEN POk(JArr(Append(acc, e.v)), Tail(s))
         ELSE PFail

\* members of an object, after "{" or ","
ParsePairs(txt, acc) ==
    LET s == LStrip(txt) IN
    IF s = <<>> \/ Head(s) # Q THEN PFail
    ELSE LET key == ParseString(Tail(s)) IN
         IF ~key.ok THEN PFail
         ELSE LET c == LStrip(key.rest) IN
              IF c = <<>> \/ Head(c) # ":" THEN PFail
              ELSE LET e == ParseValue(Tail(c)) IN
                   IF ~e.ok THEN PFail
                   ELSE LET t == LStrip(e.rest)
                            m == DictSet(acc, key.v.s, e.v)
                        IN  IF t = <<>> THEN PFail
                            ELSE IF Head(t) = "," THEN ParsePairs(Tail(t), m)
                            ELSE IF Head(t) = "}" THEN POk(JObj(m), Tail(t))
                            ELSE PFail

\* json.loads(text): one value, nothing but blanks around it; ok = FALSE
\* stands for JSONDecodeError
Loads(text) ==
    LET r == ParseValue(text) IN
    IF r.ok /\ LStrip(r.rest) = <<>> THEN [ok |-> TRUE, v |-> r.v]
    ELSE [ok |-> FALSE, v |-> JNull]

\* Python truthiness of a loaded value (None is JNull)
Truthy(v) ==
    CASE v.t = "obj" -> v.members # <<>>
      [] v.t = "arr" -> v.items # <<>>
      [] v.t = "str" -> v.s # <<>>
      [] v.t = "num" -> v.n # 0
      [] v.t = "true" -> TRUE
      [] OTHER -> FALSE

\* ------------------------------------------------ the two script variants
Variants == {"app", "copy"}
DateCol(v) == IF v = "app" THEN <<"date">> ELSE <<"tanggal">>
CatCol(v) == IF v = "app" THEN <<"category">> ELSE <<"kategori">>
AmtCol(v) == IF v = "app" THEN <<"total_amount">> ELSE <<"total_bayar">>
VendorCol(v) == IF v = "app" THEN <<"vendor_name">> ELSE <<"nama_vendor">>
FileCol(v) == IF v = "app" THEN <<"source_file">> ELSE <<"nama_file">>
CategoryOptions(v) ==
    IF v = "app"
    THEN {"F&B", "Transportation", "Office Supplies", "Utilities", "Software", "Other"}
    ELSE {"Makan & Minum", "Transportasi", "Belanja Kantor", "Utilitas", "Lainnya"}
OtherLabel(v) == IF v = "app" THEN "Other" ELSE "Lainnya"
FirstLabel(v) == IF v = "app" THEN "F&B" ELSE "Makan & Minum"

\* ------------------------------------------- replies of the remote model
Lit(w) == <<Q, w, Q>>
Member(k, valtext) == <<Q>> \o k \o <<Q, ":">> \o valtext
IsoText == <<Q, "2", "0", "2", "4", "-", "0", "3", "-", "0", "1", Q>>

\* a complete object inside a tagged fence
ReplyFenced(v) ==
    FenceJson \o <<NL, "{">> \o Member(DateCol(v), IsoText) \o <<",">>
        \o Member(CatCol(v), Lit(FirstLabel(v))) \o <<",">>
        \o Member(AmtCol(v), <<"5">>) \o <<"}", NL>> \o FenceBare
\* an object without a date whose category is outside the options
ReplySnacks(v) ==
    <<"{">> \o Member(CatCol(v), Lit("Snacks")) \o <<",", SP>>
        \o Member(AmtCol(v), <<"3">>) \o <<"}">>
\* an object with an unparseable date and no amount
ReplyBadDate(v) ==
    <<"{">> \o Member(DateCol(v), Lit("soon")) \o <<",">>
        \o Member(CatCol(v), Lit(OtherLabel(v))) \o <<",">>
        \o Member(AmtCol(v), <<"null">>) \o <<"}">>
\* an object whose fields are all null
ReplyNullFields(v) ==
    <<"{">> \o Member(DateCol(v), <<"null">>) \o <<",">>
        \o Member(CatCol(v), <<"null">>) \o <<"}">>
\* an object that names the vendor and nothing else
ReplyVendorOnly(v) == <<"{">> \o Member(VendorCol(v), Lit("Uber")) \o <<"}">>
ReplyEmptyObject == <<"{", "}">>
ReplyArray == <<"[", "1", "]">>
ReplyNull == <<"null">>
ReplyProse == <<"Sorry", SP, "{", "}">>
Replies(v) ==
    {ReplyFenced(v), ReplySnacks(v), ReplyBadDate(v), ReplyNullFields(v),
     ReplyVendorOnly(v), ReplyEmptyObject,
     ReplyArray, ReplyNull, ReplyProse}

FileNames == <<"a.png", "b.png", "c.png", "d.png">>

\* ------------------------------------------------------------ DataFrame
\* A frame is [cols, rows]: cols is the sequence of column names, every row
\* is a sequence of cells aligned with cols.  A cell is a loaded value, JNull
\* for NaN/None; in a converted date column it is JDate(n) or JNaT.
JDate(n) == JVal("date", n, <<>>, <<>>, <<>>)
JNaT == JVal("nat", 0, <<>>, <<>>, <<>>)
EmptyFrame == [cols |-> <<>>, rows |-> <<>>]

ColIndex(cols, c) ==
    IF \E j \in 1..Len(cols) : cols[j] = c
    THEN CHOOSE j \in 1..Len(cols) : cols[j] = c
    ELSE 0
HasCol(frame, c) == ColIndex(frame.cols, c) # 0

RECURSIVE AddKeys(_, _)
\* the keys of one record that cols lacks, appended in the record's order
AddKeys(cols, members) ==
    IF members = <<>> THEN cols
    ELSE AddKeys(IF ColIndex(cols, Head(members).k) = 0
                 THEN Append(cols, Head(members).k) ELSE cols,
                 Tail(members))

RECURSIVE Columns(_)
\* union of the records' keys, by first appearance
Columns(data) ==
    IF data = <<>> THEN <<>>
    ELSE AddKeys(Columns(SubSeq(data, 1, Len(data) - 1)), data[Len(data)])

\* pd.read_json(json.dumps(all_extracted_data))
ReadJson(data) ==
    LET cols == Columns(data) IN
    [cols |-> cols,
     rows |-> [j \in 1..Len(data) |->
                [c \in 1..Len(cols) |-> DictGet(data[j], cols[c])]]]

IsLeap(y) == (y % 4 = 0 /\ y % 100 # 0) \/ y % 400 = 0
DaysIn(y, m) ==
    IF m = 2 THEN (IF IsLeap(y) THEN 29 ELSE 28)
    ELSE IF m \in {4, 6, 9, 11} THEN 30 ELSE 31

\* A YYYY-MM-DD string as the number YYYYMMDD, 0 when it is not a date.
\* Dates in the model are either of this shape or a word such as "soon".
ParseIsoDate(s) ==
    IF /\ Len(s) = 10
       /\ s[5] = "-" /\ s[8] = "-"
       /\ \A j \in {1, 2, 3, 4, 6, 7, 9, 10} : s[j] \in DigitSet
    THEN LET y == Decimal(SubSeq(s, 1, 4))
             m == Decimal(SubSeq(s, 6, 7))
             d == Decimal(SubSeq(s, 9, 10))
         IN  IF m \in 1..12 /\ d \in 1..DaysIn(y, m) /\ y >= 1
             THEN y * 10000 + m * 100 + d ELSE 0
    ELSE 0

\* one cell under pd.to_datetime(..., errors='coerce')
ToDatetime(cell) ==
    IF cell.t = "str" /\ ParseIsoDate(cell.s) # 0
    THEN JDate(ParseIsoDate(cell.s)) ELSE JNaT

Digit(k) == Digits[k + 1]
\* one cell under .dt.strftime('%Y-%m-%d'); NaT gives NaN, a blank cell
Strftime(cell) ==
    IF cell.t = "date"
    THEN LET y == cell.n \div 10000
             m == (cell.n \div 100) % 100
             d == cell.n % 100
         IN  JStr(<<Digit(y \div 1000), Digit((y \div 100) % 10),
                    Digit((y \div 10) % 10), Digit(y % 10), "-",
                    Digit(m \div 10), Digit(m % 10), "-",
                    Digit(d \div 10), Digit(d % 10)>>)
    ELSE JNull

\* df[c] = pd.to_datetime(df[c], errors='coerce')
ConvertDates(frame, c) ==
    LET k == ColIndex(frame.cols, c) IN
    [frame EXCEPT !.rows =
        [j \in 1..Len(frame.rows) |->
            [h \in 1..Len(frame.cols) |->
                IF h = k THEN ToDatetime(frame.rows[j][h]) ELSE frame.rows[j][h]]]]

\* export_df[c] = export_df[c].dt.strftime('%Y-%m-%d')
FormatDates(frame, c) ==
    LET k == ColIndex(frame.cols, c) IN
    [frame EXCEPT !.rows =
        [j \in 1..Len(frame.rows) |->
            [h \in 1..Len(frame.cols) |->
                IF h = k THEN Strftime(frame.rows[j][h]) ELSE frame.rows[j][h]]]]

\* df = pd.read_json(...); if DateCol in df.columns: df[DateCol] = to_datetime
BuildFrame(data, v) ==
    LET raw == ReadJson(data) IN
    IF HasCol(raw, DateCol(v)) THEN ConvertDates(raw, DateCol(v)) ELSE raw

ColValues(frame, c) ==
    LET k == ColIndex(frame.cols, c) IN
    [j \in 1..Len(frame.rows) |-> frame.rows[j][k]]

RECURSIVE SumNumbers(_)
\* Series.sum(): NaN cells are skipped
SumNumbers(cells) ==
    IF cells = <<>> THEN 0
    ELSE (IF Head(cells).t = "num" THEN Head(cells).n ELSE 0) + SumNumbers(Tail(cells))

\* the category words of the model in Python's string order
WordOrder ==
    <<"Belanja Kantor", "F&B", "Lainnya", "Makan & Minum", "Office Supplies",
      "Other", "Snacks", "Software", "Transportasi", "Transportation",
      "Utilitas", "Utilities">>
Rank(w) == CHOOSE k \in 1..Len(WordOrder) : WordOrder[k] = w
Count(cells, w) == Cardinality({j \in 1..Len(cells) : cells[j] = JStr(<<w>>)})

\* Series.mode()[0]: the most frequent non-null value, the smallest one on
\* ties; "" stands for the empty result, on which [0] raises
Mode(cells) ==
    LET words == {w \in {WordOrder[k] : k \in 1..Len(WordOrder)} : Count(cells, w) > 0} IN
    IF words = {} THEN ""
    ELSE CHOOSE w \in words :
            \A u \in words : \/ Count(cells, u) < Count(cells, w)
                             \/ Count(cells, u) = Count(cells, w) /\ Rank(w) <= Rank(u)

NoMetrics == [shown |-> {}, count |-> 0, total |-> 0, top |-> ""]

\* src/app.py: the three st.metric values, computed over frame
MetricsApp(frame) ==
    [shown |-> {"count", "total", "top"},
     count |-> Len(frame.rows),
     total |-> IF HasCol(frame, AmtCol("app"))
               THEN SumNumbers(ColValues(frame, AmtCol("app"))) ELSE 0,
     top |-> IF HasCol(frame, CatCol("app")) /\ frame.rows # <<>>
             THEN Mode(ColValues(frame, CatCol("app"))) ELSE "N/A"]

\* app copy.py: only the total, and only when the column exists
MetricsCopy(frame) ==
    IF HasCol(frame, AmtCol("copy"))
    THEN [shown |-> {"total"}, count |-> 0,
          total |-> SumNumbers(ColValues(frame, AmtCol("copy"))), top |-> ""]
    ELSE NoMetrics

\* top_cat = df[CatCol].mode()[0] raises when the column holds no value
ModeRaises(frame) ==
    /\ HasCol(frame, CatCol("app")) /\ frame.rows # <<>>
    /\ Mode(ColValues(frame, CatCol("app"))) = ""

\* ---------------------------------------------------------------- state
VARIABLES
    variant,            \* which script runs: "app" (src/app.py) or "copy"
    secrets,            \* st.secrets: [present, key] for GEMINI_API_KEY
    api_key,
    uploaded_files,     \* sequence of [name, image_ok]
    pc,                 \* position of the script run
    i,                  \* 1-based index of the next file of the batch loop
    all_extracted_data, \* sequence of dicts (member sequences)
    progress,           \* <<numerator, denominator>> given to progress_bar
    calls,              \* number of generate_content calls issued
    errors,             \* file names for which st.error was shown
    log,                \* per attempted file: [file, outcome, value]
    df,
    metrics,
    edited_df,          \* what st.data_editor returns
    edits,              \* number of edits the user made in the editor
    exported,           \* [done, rows]: the sheet written by to_excel
    crash,              \* "" or the statement that raised out of the script
    nT, nIn, nOut, nVal, nTwice, nPc   \* harness of the response cleanup

mainVars ==
    <<variant, secrets, api_key, uploaded_files, pc, i, all_extracted_data,
      progress, calls, errors, log, df, metrics, edited_df, edits, exported, crash>>
normVars == <<nT, nIn, nOut, nVal, nTwice, nPc>>
vars == <<mainVars, normVars>>

NoExport == [done |-> FALSE, rows |-> <<>>]

NormIdle ==
    /\ nT = <<>> /\ nIn = <<>> /\ nOut = <<>> /\ nTwice = <<>>
    /\ nVal = [ok |-> FALSE, v |-> JNull]
    /\ nPc = "idle"

RECURSIVE Batches(_)
\* every batch of exactly n uploaded files
Batches(n) ==
    IF n = 0 THEN {<<>>}
    ELSE {Append(b, [name |-> FileNames[n], image_ok |-> ok]) :
            b \in Batches(n - 1), ok \in BOOLEAN}

SecretStates ==
    {[present |-> FALSE, key |-> ""], [present |-> TRUE, key |-> ""],
     [present |-> TRUE, key |-> "AIza"]}

MainStart ==
    /\ api_key = ""
    /\ pc = "sidebar"
    /\ i = 1
    /\ all_extracted_data = <<>>
    /\ progress = <<0, 1>>
    /\ calls = 0
    /\ errors = <<>>
    /\ log = <<>>
    /\ df = EmptyFrame
    /\ metrics = NoMetrics
    /\ edited_df = EmptyFrame
    /\ edits = 0
    /\ exported = NoExport
    /\ crash = ""

Init ==
    /\ variant \in Variants
    /\ secrets \in SecretStates
    /\ uploaded_files \in UNION {Batches(n) : n \in 0..MaxFiles}
    /\ MainStart
    /\ NormIdle

\* ---------------------------------------------------------------- sidebar
\* if "GEMINI_API_KEY" in st.secrets: api_key = st.secrets[...]
SidebarSecret ==
    /\ pc = "sidebar"
    /\ secrets.present
    /\ api_key' = secrets.key
    /\ pc' = "main"
    /\ UNCHANGED <<variant, secrets, uploaded_files, i, all_extracted_data,
                   progress, calls, errors, log, df, metrics, edited_df, edits,
                   exported, crash, normVars>>

\* else: api_key = st.text_input(...); if not api_key: st.stop()
SidebarInput ==
    /\ pc = "sidebar"
    /\ ~secrets.present
    /\ \E typed \in {"", "AIza"} :
        /\ api_key' = typed
        /\ pc' = IF typed = "" THEN "stopped" ELSE "main"
    /\ UNCHANGED <<variant, secrets, uploaded_files, i, all_extracted_data,
                   progress, calls, errors, log, df, metrics, edited_df, edits,
                   exported, crash, normVars>>

\* if uploaded_files and api_key
LoopGuardNoKeyCheck == uploaded_files # <<>>
LoopGuard == uploaded_files # <<>> /\ api_key # ""

\* the guard holds: progress_bar = st.progress(0) and the loop is entered
StartLoop ==
    /\ pc = "main"
    /\ LoopGuard
    /\ pc' = "loop"
    /\ progress' = <<0, 1>>
    /\ UNCHANGED <<variant, secrets, api_key, uploaded_files, i,
                   all_extracted_data, calls, errors, log, df, metrics,
                   edited_df, edits, exported, crash, normVars>>

SkipLoop ==
    /\ pc = "main"
    /\ ~LoopGuard
    /\ pc' = "post"
    /\ UNCHANGED <<variant, secrets, api_key, uploaded_files, i,
                   all_extracted_data, progress, calls, errors, log, df,
                   metrics, edited_df, edits, exported, crash, normVars>>

\* ------------------------------------------------------------ batch loop
\* what model.generate_content does: it raises, or it returns a text
CallOutcomes(v) ==
    {[raised |-> TRUE, text |-> <<>>]} \cup
    {[raised |-> FALSE, text |-> r] : r \in Replies(v)}

\* extract_invoice_data: the try block and its except clause.  failed means
\* the except clause ran (st.error shown, None returned).
ExtractInvoiceData(outcome) ==
    IF outcome.raised THEN [failed |-> TRUE, data |-> JNull]
    ELSE LET p == Loads(CleanText(outcome.text)) IN
         IF p.ok THEN [failed |-> FALSE, data |-> p.v]
         ELSE [failed |-> TRUE, data |-> JNull]

LastFile == i = Len(uploaded_files)

\* Image.open(file) raises on a file that is not an image; the call is
\* outside every try block, so the script run ends there
OpenFails ==
    /\ pc = "loop"
    /\ ~uploaded_files[i].image_ok
    /\ pc' = "crashed"
    /\ crash' = "Image.open"
    /\ log' = Append(log, [file |-> uploaded_files[i].name,
                           outcome |-> "open_error", value |-> JNull])
    /\ UNCHANGED <<variant, secrets, api_key, uploaded_files, i,
                   all_extracted_data, progress, calls, errors, df, metrics,
                   edited_df, edits, exported, normVars>>

\* one iteration of the loop on a readable image
ProcessFile ==
    /\ pc = "loop"
    /\ uploaded_files[i].image_ok
    /\ \E outcome \in CallOutcomes(variant) :
        LET name == uploaded_files[i].name
            r == ExtractInvoiceData(outcome)
            data == r.data
        IN  /\ calls' = calls + 1
            /\ errors' = IF r.failed THEN Append(errors, name) ELSE errors
            /\ log' = Append(log,
                    [file |-> name,
                     outcome |-> IF outcome.raised THEN "call_error"
                                 ELSE IF r.failed THEN "decode_error" ELSE "parsed",
                     value |-> data])
            /\ IF Truthy(data) /\ data.t # "obj"
               THEN \* data[FileCol] = file.name raises TypeError
                    /\ pc' = "crashed"
                    /\ crash' = "item assignment"
                    /\ UNCHANGED <<i, all_extracted_data, progress>>
               ELSE /\ all_extracted_data' =
                        IF Truthy(data)
                        THEN Append(all_extracted_data,
                                    DictSet(data.members, FileCol(variant), JStr(<<name>>)))
                        ELSE all_extracted_data
                    /\ progress' = <<i, Len(uploaded_files)>>
                    /\ i' = i + 1
                    /\ pc' = IF LastFile THEN "post" ELSE "loop"
                    /\ crash' = crash
    /\ UNCHANGED <<variant, secrets, api_key, uploaded_files, df, metrics,
                   edited_df, edits, exported, normVars>>

\* ----------------------------------------------------- analytics section
\* if all_extracted_data: build df, show the metrics, open the editor
Analytics ==
    /\ pc = "post"
    /\ all_extracted_data # <<>>
    /\ LET frame == BuildFrame(all_extracted_data, variant) IN
        /\ df' = frame
        /\ IF variant = "app" /\ ModeRaises(frame)
           THEN /\ pc' = "crashed"
                /\ crash' = "mode()[0]"
                /\ UNCHANGED <<metrics, edited_df>>
           ELSE /\ pc' = "editor"
                /\ crash' = crash
                /\ metrics' = IF variant = "app" THEN MetricsApp(frame)
                              ELSE MetricsCopy(frame)
                /\ edited_df' = frame
    /\ UNCHANGED <<variant, secrets, api_key, uploaded_files, i,
                   all_extracted_data, progress, calls, errors, log, edits,
                   exported, normVars>>

\* nothing was extracted: the section is skipped and the run ends
NoData ==
    /\ pc = "post"
    /\ all_extracted_data = <<>>
    /\ pc' = "done"
    /\ UNCHANGED <<variant, secrets, api_key, uploaded_files, i,
                   all_extracted_data, progress, calls, errors, log, df,
                   metrics, edited_df, edits, exported, crash, normVars>>

\* ------------------------------------------------------------ the editor
\* An edit reruns the script; the rerun rebuilds the same df and
\* st.data_editor returns df with the edits made so far applied.  The edit
\* actions below keep that return value in edited_df.
EditCategories(v) == {OtherLabel(v), FirstLabel(v)}
EditAmounts == {9}

SetCell(frame, r, c, cell) ==
    LET k == ColIndex(frame.cols, c) IN
    [frame EXCEPT !.rows[r] =
        [h \in 1..Len(frame.cols) |-> IF h = k THEN cell ELSE frame.rows[r][h]]]

RemoveRow(frame, r) ==
    [frame EXCEPT !.rows =
        [j \in 1..(Len(frame.rows) - 1) |->
            IF j < r THEN frame.rows[j] ELSE frame.rows[j + 1]]]

\* a row added in the editor: empty cells, NaT in the date column; with
\* required=True (src/app.py) the category cell must be filled in
NewRow(frame, v, cat) ==
    [h \in 1..Len(frame.cols) |->
        IF frame.cols[h] = DateCol(v) THEN JNaT
        ELSE IF frame.cols[h] = CatCol(v) /\ v = "app" THEN JStr(<<cat>>)
        ELSE JNull]

EditUnchanged ==
    UNCHANGED <<variant, secrets, api_key, uploaded_files, pc, i,
                all_extracted_data, progress, calls, errors, log, df, metrics,
                exported, crash, normVars>>

EditDeleteRow ==
    /\ pc = "editor" /\ edits < MaxEdits
    /\ \E r \in 1..Len(edited_df.rows) : edited_df' = RemoveRow(edited_df, r)
    /\ edits' = edits + 1
    /\ EditUnchanged

EditAddRow ==
    /\ pc = "editor" /\ edits < MaxEdits
    /\ \E cat \in EditCategories(variant) :
        edited_df' = [edited_df EXCEPT
                        !.rows = Append(@, NewRow(edited_df, variant, cat))]
    /\ edits' = edits + 1
    /\ EditUnchanged

EditCategory ==
    /\ pc = "editor" /\ edits < MaxEdits
    /\ HasCol(edited_df, CatCol(variant))
    /\ \E r \in 1..Len(edited_df.rows), cat \in EditCategories(variant) :
        edited_df' = SetCell(edited_df, r, CatCol(variant), JStr(<<cat>>))
    /\ edits' = edits + 1
    /\ EditUnchanged

EditAmount ==
    /\ pc = "editor" /\ edits < MaxEdits
    /\ HasCol(edited_df, AmtCol(variant))
    /\ \E r \in 1..Len(edited_df.rows), n \in EditAmounts :
        edited_df' = SetCell(edited_df, r, AmtCol(variant), JNum(n))
    /\ edits' = edits + 1
    /\ EditUnchanged

\* ------------------------------------------------------------------ export
\* src/app.py copies edited_df; app copy.py discards what the editor
\* returned and copies df
ExportSource == IF variant = "app" THEN edited_df ELSE df

\* src/app.py: if not edited_df.empty: st.bar_chart(edited_df, x="category",
\* y="total_amount", ...) raises when a named column is missing; app copy.py
\* draws its chart only when both columns exist
ChartRaises ==
    /\ variant = "app"
    /\ edited_df.rows # <<>>
    /\ ~(HasCol(edited_df, CatCol(variant)) /\ HasCol(edited_df, AmtCol(variant)))

\* the chart, then export_df[DateCol] = export_df[DateCol].dt.strftime(...)
\* and to_excel; the subscript raises KeyError when the column is missing
Export ==
    /\ pc = "editor"
    /\ LET src == ExportSource IN
        IF ChartRaises
        THEN /\ pc' = "crashed"
             /\ crash' = "bar_chart"
             /\ exported' = exported
        ELSE IF HasCol(src, DateCol(variant))
        THEN /\ exported' = [done |-> TRUE,
                             rows |-> FormatDates(src, DateCol(variant)).rows]
             /\ pc' = "done"
             /\ crash' = crash
        ELSE /\ pc' = "crashed"
             /\ crash' = "export date"
             /\ exported' = exported
    /\ UNCHANGED <<variant, secrets, api_key, uploaded_files, i,
                   all_extracted_data, progress, calls, errors, log, df,
                   metrics, edited_df, edits, normVars>>

Next ==
    \/ SidebarSecret \/ SidebarInput
    \/ StartLoop \/ SkipLoop
    \/ OpenFails \/ ProcessFile
    \/ Analytics \/ NoData
    \/ EditDeleteRow \/ EditAddRow \/ EditCategory \/ EditAmount
    \/ Export

Spec == Init /\ [][Next]_vars

\* ------------------------------------------- the response cleanup alone
\* Harness for lines 93-94 of src/app.py (68-70 of app copy.py): a text is
\* chosen, possibly wrapped in a code fence, cleaned, loaded, cleaned again.
NormAlphabet == {BT, Q, "{", "}", "[", "]", ":", ",", "0", "1", SP, NL, "json", "null"}

Texts(n) == UNION {[1..k -> NormAlphabet] : k \in 0..n}

HasFence(t) == \E j \in 1..Len(t) : IsPrefix(FenceBare, SubSeq(t, j, Len(t)))

\* valid JSON texts without a fence marker: every short one over the
\* alphabet, and the objects the model replies with
NormInputs ==
    {t \in Texts(MaxLen) : Loads(t).ok /\ ~HasFence(t)}
    \cup UNION {{ReplySnacks(v), ReplyBadDate(v), ReplyNullFields(v),
                 ReplyVendorOnly(v)} : v \in Variants}

FenceStyles == {"none", "json", "bare", "json_tight", "bare_tight"}
WrapFence(t, style) ==
    CASE style = "json" -> FenceJson \o <<NL>> \o t \o <<NL>> \o FenceBare
      [] style = "bare" -> FenceBare \o <<NL>> \o t \o <<NL>> \o FenceBare
      [] style = "json_tight" -> FenceJson \o t \o FenceBare
      [] style = "bare_tight" -> FenceBare \o t \o FenceBare
      [] OTHER -> t

InitNorm ==
    /\ variant = "app"
    /\ secrets = [present |-> FALSE, key |-> ""]
    /\ uploaded_files = <<>>
    /\ MainStart
    /\ nT \in NormInputs
    /\ nIn = <<>> /\ nOut = <<>> /\ nTwice = <<>>
    /\ nVal = [ok |-> FALSE, v |-> JNull]
    /\ nPc = "start"

NormWrap ==
    /\ nPc = "start"
    /\ \E style \in FenceStyles : nIn' = WrapFence(nT, style)
    /\ nPc' = "wrapped"
    /\ UNCHANGED <<mainVars, nT, nOut, nVal, nTwice>>

NormClean ==
    /\ nPc = "wrapped"
    /\ nOut' = CleanText(nIn)
    /\ nVal' = Loads(CleanText(nIn))
    /\ nPc' = "cleaned"
    /\ UNCHANGED <<mainVars, nT, nIn, nTwice>>

NormCleanAgain ==
    /\ nPc = "cleaned"
    /\ nTwice' = CleanText(nOut)
    /\ nPc' = "twice"
    /\ UNCHANGED <<mainVars, nT, nIn, nOut, nVal>>

NextNorm == NormWrap \/ NormClean \/ NormCleanAgain

SpecNorm == InitNorm /\ [][NextNorm]_vars

\* ================================================================ claims
LoopLeft == pc \in {"post", "editor", "done", "crashed"}
RecordOf(name) ==
    {j \in 1..Len(all_extracted_data) :
        DictGet(all_extracted_data[j], FileCol(variant)) = JStr(<<name>>)}
ExtractionFailed(e) == e.outcome \in {"call_error", "decode_error"}
ParsedObject(e) == e.outcome = "parsed" /\ e.value.t = "obj"

\* C1: a failure while image k is handled never stops the batch loop: once
\* the loop has been entered and left, every uploaded image was attempted
\* and the run did not end inside the loop.
C1_FailureNeverStopsLoop ==
    (LoopLeft /\ LoopGuard) =>
        /\ Len(log) = Len(uploaded_files)
        /\ crash \notin {"Image.open", "item assignment"}

\* C2: when exactly one image of a batch of N fails extraction and the
\* other N-1 replies are JSON objects, the table holds N-1 records and the
\* progress reported last is N/N.
C2_OneFailureLeavesNMinusOne ==
    LET N == Len(uploaded_files)
        failed == {j \in 1..Len(log) : ExtractionFailed(log[j])}
        succeeded == {j \in 1..Len(log) : ParsedObject(log[j])}
    IN  (LoopLeft /\ Len(log) = N /\ Cardinality(failed) = 1
            /\ Cardinality(succeeded) = N - 1) =>
            /\ Len(all_extracted_data) = N - 1
            /\ progress = <<N, N>>

\* C3: without a usable API key (an empty stored secret, or no stored
\* secret and an empty input) no remote call is issued and the batch loop
\* never starts, whatever was uploaded.
C3_NoKeyNoExtraction ==
    ((secrets.present /\ secrets.key = "") \/ (~secrets.present /\ api_key = "")) =>
        /\ calls = 0
        /\ pc # "loop"
        /\ log = <<>>
        /\ all_extracted_data = <<>>

C3_Witness ==
    /\ secrets.present /\ secrets.key = ""
    /\ Len(uploaded_files) = MaxFiles
    /\ pc = "done"

\* C4: in both variants the exported sheet holds exactly the rows of the
\* table as the editor returned it after the user's edits.
C4_ExportMatchesEditedTable ==
    exported.done =>
        exported.rows = FormatDates(edited_df, DateCol(variant)).rows

\* C5: the summary shown (count, sum of amounts, most frequent category)
\* equals the summary of the current, possibly edited table.
C5_SummaryFollowsEdits ==
    (pc \in {"editor", "done"} /\ "count" \in metrics.shown) =>
        metrics = MetricsApp(edited_df)

\* C6: a reply that parses to an object with every field absent (no member,
\* or only null members) is appended to the table with its file name.
C6_AllAbsentRecordKept ==
    \A j \in 1..Len(log) :
        (/\ ParsedObject(log[j])
         /\ \A m \in 1..Len(log[j].value.members) : log[j].value.members[m].v = JNull)
        => RecordOf(log[j].file) # {}

\* C7: the category stored for a record is the model's category when that
\* is one of the canonical labels, and the label Other otherwise.
C7_CategoryCoerced ==
    \A j \in 1..Len(log), r \in 1..Len(all_extracted_data) :
        (/\ ParsedObject(log[j])
         /\ r \in RecordOf(log[j].file)
         /\ DictGet(log[j].value.members, CatCol(variant)).t = "str")
        => LET given == DictGet(log[j].value.members, CatCol(variant)).s
               stored == DictGet(all_extracted_data[r], CatCol(variant)).s
           IN  IF \E w \in CategoryOptions(variant) : given = <<w>>
               THEN stored = given
               ELSE stored = <<OtherLabel(variant)>>

\* C8: for a valid JSON text t without fence markers, the cleanup of t
\* wrapped in a code fence (tagged or not) loads to the same value as the
\* cleanup of t, and cleaning a second time changes nothing.
C8_FenceInsensitive ==
    /\ nPc \in {"cleaned", "twice"} => nVal = Loads(CleanText(nT))
    /\ nPc = "twice" => nTwice = nOut

C8_Witness ==
    /\ nPc = "twice"
    /\ nIn = WrapFence(nT, "json")
    /\ nVal.ok /\ nVal.v.t = "obj" /\ nVal.v.members # <<>>

\* C9: a reply that parses as JSON but is not an object is a failed
\* extraction: an error is shown for the file, no record is appended and
\* the loop goes on.
C9_NonObjectIsFailure ==
    \A j \in 1..Len(log) :
        (log[j].outcome = "parsed" /\ log[j].value.t # "obj") =>
            /\ \E e \in 1..Len(errors) : errors[e] = log[j].file
            /\ RecordOf(log[j].file) = {}
            /\ crash # "item assignment"

\* C10: a missing or unparseable date never fails the run: the export
\* completes, also when no record has a date field, and a row without a
\* date is written with a blank date cell.
C10_DateNeverFails ==
    /\ crash # "export date"
    /\ exported.done =>
        LET k == ColIndex(ExportSource.cols, DateCol(variant)) IN
        \A r \in 1..Len(exported.rows) :
            ExportSource.rows[r][k].t = "nat" => exported.rows[r][k] = JNull

====
